---- MODULE Spec2Model ----
(***************************************************************************)
(* A model of destinyclanrewards.go: the weekly loop of main, the roster   *)
(* scan of getEarliestClanCompletions / getEarliestClanCompletion, the     *)
(* paginated window filter of getActivities and the fireteam filter of     *)
(* getFireteam.  The remote service is the part of the state the program   *)
(* only reads: the activity history of every character (history) and the   *)
(* post game carnage report of every instance (pgcr).                      *)
(*                                                                         *)
(* Times are seconds on the UTC time line (the service's timestamps end in *)
(* "Z", so time.Time's ==, Before and After are the integer comparisons).  *)
(***************************************************************************)
EXTENDS Integers, Sequences, FiniteSets, TLC

(* ----------------------------- bounds ---------------------------------- *)

\* Number of clan members of the roster (membership IDs 1..NumMembers).
NumMembers == 3

\* Largest number of entries of rewards.Rewards (weekly windows of one run).
MaxRewards == 2

(* ------------------------- program constants --------------------------- *)

\* var count int32 = 100: the page size of the activity history.
count == 100

\* The activity modes passed by getEarliestClanCompletions.
Raid == 4
Nightfall == 16
Trials == 39
Crucible == 5

\* start.AddDate(0, 0, -7): the days one iteration of main moves the window.
WeekDays == 7

\* The order in which getEarliestClanCompletions scans the modes of a member.
ModeOrder == <<Raid, Nightfall, Trials, Crucible>>

Modes == {ModeOrder[i] : i \in 1..Len(ModeOrder)}

(* ------------------------------ helpers -------------------------------- *)

Day == 24 * 60 * 60

Hour == 60 * 60

Min2(a, b) == IF a < b THEN a ELSE b

Range(s) == {s[i] : i \in 1..Len(s)}

\* The sequences that list every element of the set S exactly once.
Orders(S) ==
  {s \in [1..Cardinality(S) -> S] : \A i, j \in 1..Cardinality(S) : s[i] = s[j] => i = j}

\* A faulty variant of AddDate: the move is a day short.
AddDateShort(t, days) == t + (days + 1) * Day

\* t.AddDate(0, 0, days) of a UTC time: the same clock time `days` days on.
AddDate(t, days) == t + days * Day

\* The clan roster: the membership IDs of the clan's members.
Roster == 1..NumMembers

\* A player who is not in the clan.
Outsider == NumMembers + 1

\* The nil *completion.
Nil == [valid |-> FALSE, end |-> 0, fireteamMembers |-> <<>>]

(* ------------------------------- state --------------------------------- *)

VARIABLES
  \* The remote service (read only).
  rewards,        \* the weekly reward state: StartDate, EndDate, number of Rewards
  numChars,       \* member -> number of characters of the member's profile
  history,        \* <<member, character, mode>> -> the character's feed, if not empty
  pgcr,           \* instance -> entries of the post game carnage report
  \* main
  pc,             \* position of the program
  start, end,     \* the window of the current iteration of main's loop
  rewardIdx,      \* index into rewards.Rewards of the current iteration
  clanMembers,    \* the roster, after sort.Sort(byMembershipID(...))
  out,            \* the report blocks printed so far
  \* getEarliestClanCompletions
  clanMemberIDs,  \* the set of the roster's membership IDs
  best,           \* mode -> raid / nightfall / trials / crucible
  memberIdx,      \* index into clanMembers
  characters,     \* the characters of the current member, in the order ranged
  modeIdx,        \* index into ModeOrder: the getEarliestClanCompletion call
  \* getEarliestClanCompletion and getActivities
  charIdx,        \* index into characters
  page,           \* getActivities: the page to fetch next
  activities,     \* getActivities: the activities retained so far
  actIdx,         \* index into activities
  \* history of the run (not read by the program)
  calls,          \* the windows getEarliestClanCompletions was called with
  considered,     \* <<member, character, mode, position>> retained in this window
  visited,        \* <<member, character, mode, page>> fetched in this window
  fetched,        \* pages fetched by the current getActivities call, in order
  source          \* mode -> the instance best[mode] was built from (-1: none)

world == <<rewards, numChars, history, pgcr>>

vars == <<rewards, numChars, history, pgcr, pc, start, end, rewardIdx, clanMembers,
          out, clanMemberIDs, best, memberIdx, characters, modeIdx, charIdx, page,
          activities, actIdx, calls, considered, visited, fetched, source>>

(* ------------------------- the remote service -------------------------- *)

\* rewards.StartDate of the modelled runs.
PeriodStart == 21 * Day

\* A newer activity of the current week that was abandoned (not completed).
Filler ==
  [instanceID |-> 0, period |-> PeriodStart + Hour,
   values |-> [activityDurationSeconds |-> 0, completed |-> 0, completionReason |-> 1]]

Repeat(x, n) == [i \in 1..n |-> x]

\* The whole activity feed of a character for a mode, newest first.
ActivityHistory(m, ch, mode) ==
  IF <<m, ch, mode>> \in DOMAIN history
  THEN Repeat(Filler, history[<<m, ch, mode>>].pad) \o history[<<m, ch, mode>>].recs
  ELSE <<>>

\* Destiny2GetActivityHistory(count, page): the records of one page.
PageOf(feed, p) == SubSeq(feed, p * count + 1, Min2((p + 1) * count, Len(feed)))

(* ---------------------------- getActivities ---------------------------- *)

\* The computed end of an activity: Period + activityDurationSeconds.
EndTime(activity) == activity.period + activity.values.activityDurationSeconds

\* A faulty variant of InWindow: the window taken half open, [start, end).
InWindowHalfOpen(activity, s, e) ==
  /\ ~(activity.period < s)
  /\ EndTime(activity) < e

\* getActivities lines 149-156: neither `continue` is taken.
InWindow(activity, s, e) ==
  /\ ~(activity.period < s)
  /\ ~(EndTime(activity) > e)

\* The activities of a page appended to `activities`.
Retained(resp, s, e) == SelectSeq(resp, LAMBDA a : InWindow(a, s, e))

\* A faulty variant of MorePages: a page without a hit does not stop the loop.
MorePagesIgnoringFound(resp, s, e) == ~(Len(resp) < count)

\* getActivities lines 160-166: neither `break` is taken, page++ follows.
MorePages(resp, s, e) ==
  /\ Len(Retained(resp, s, e)) > 0
  /\ ~(Len(resp) < count)

(* ----------------------------- getFireteam ----------------------------- *)

\* A faulty variant of getFireteam: the entries' completed flag is not looked at.
getFireteamAll(instanceID) ==
  [i \in 1..Len(pgcr[instanceID]) |-> pgcr[instanceID][i].membershipID]

\* getFireteam: the players of the entries whose completed value is not 0.
getFireteam(instanceID) ==
  LET kept == SelectSeq(pgcr[instanceID], LAMBDA entry : entry.completed # 0)
  IN  [i \in 1..Len(kept) |-> kept[i].membershipID]

(* ----------------------- getEarliestClanCompletion --------------------- *)

\* Line 218: the activity's own completed value is 0.
NotCompleted(activity) == activity.values.completed = 0

\* Lines 226-227: neither signal is in activity.Values, logger.Panicf.
UnknownVictory(activity) ==
  /\ "standing" \notin DOMAIN activity.values
  /\ "completionReason" \notin DOMAIN activity.values

\* A faulty variant of Victory: the completion reason is looked at before the standing.
VictoryReasonFirst(activity) ==
  IF "completionReason" \in DOMAIN activity.values
  THEN activity.values.completionReason = 0
  ELSE activity.values.standing = 0

\* Lines 221-225: the victory flag (UnknownVictory(activity) is false).
Victory(activity) ==
  IF "standing" \in DOMAIN activity.values
  THEN activity.values.standing = 0
  ELSE activity.values.completionReason = 0

\* A faulty variant of NotEarlier: a tie replaces the incumbent.
NotEarlierStrict(cEnd, earliest) == earliest.valid /\ cEnd > earliest.end

\* Line 232: the candidate does not beat the incumbent.
NotEarlier(cEnd, earliest) ==
  earliest.valid /\ (cEnd > earliest.end \/ cEnd = earliest.end)

\* Lines 239-244: the fireteam members whose ID is in clanMemberIDs.
ClanFireteam(fireteamMembers, ids) == SelectSeq(fireteamMembers, LAMBDA m : m \in ids)

\* Lines 245-257: the quorum of a mode.
minClanMembersNeeded(mode) ==
  CASE mode = Raid -> 3
    [] mode = Nightfall -> 2
    [] mode = Trials -> 2
    [] mode = Crucible -> 2

\* The activity passes lines 218-234: getFireteam is called for it.
ReachesFireteam(activity, earliest) ==
  /\ ~NotCompleted(activity)
  /\ ~UnknownVictory(activity)
  /\ Victory(activity)
  /\ ~NotEarlier(EndTime(activity), earliest)

\* Lines 215-262 for one activity: the value of `earliest` after the iteration.
Earliest(activity, mode, earliest, ids) ==
  LET c == [valid |-> TRUE, end |-> EndTime(activity),
            fireteamMembers |-> ClanFireteam(getFireteam(activity.instanceID), ids)]
  IN  IF ~ReachesFireteam(activity, earliest) THEN earliest
      ELSE IF Len(c.fireteamMembers) < minClanMembersNeeded(mode) THEN earliest
      ELSE c

(* --------------------------------- main -------------------------------- *)

RECURSIVE Insert(_, _)
Insert(x, s) ==
  IF s = <<>> THEN <<x>>
  ELSE IF x < Head(s) THEN <<x>> \o s
  ELSE <<Head(s)>> \o Insert(x, Tail(s))

RECURSIVE SortByMembershipID(_)
\* sort.Sort(byMembershipID(clanMembers)): ascending membership IDs.
SortByMembershipID(s) ==
  IF s = <<>> THEN <<>> ELSE Insert(Head(s), SortByMembershipID(Tail(s)))

NoBest == [mode \in Modes |-> Nil]

NoSource == [mode \in Modes |-> -1]

\* main lines 305-349: the clan, its reward state and its sorted roster are read
\* (getMembers returns the members in any order).
Setup ==
  /\ pc = "setup"
  /\ \E order \in Orders(Roster) : clanMembers' = SortByMembershipID(order)
  /\ start' = rewards.StartDate
  /\ end' = rewards.EndDate
  /\ rewardIdx' = 1
  /\ pc' = "loop"
  /\ UNCHANGED <<world, out, clanMemberIDs, best, memberIdx, characters, modeIdx,
                 charIdx, page, activities, actIdx, calls, considered, visited, fetched, source>>

\* main line 351 and getEarliestClanCompletions lines 269-279: the call for the
\* window of the next reward; the four completions start nil.
EnterWindow ==
  /\ pc = "loop"
  /\ rewardIdx <= rewards.Rewards
  /\ best' = NoBest
  /\ source' = NoSource
  /\ clanMemberIDs' = Range(clanMembers)
  /\ memberIdx' = 1
  /\ calls' = Append(calls, [start |-> start, end |-> end])
  /\ considered' = {}
  /\ visited' = {}
  /\ pc' = "member"
  /\ UNCHANGED <<world, start, end, rewardIdx, clanMembers, out, characters, modeIdx,
                 charIdx, page, activities, actIdx, fetched>>

\* main line 384: rewards.Rewards is exhausted.
Finish ==
  /\ pc = "loop"
  /\ rewardIdx > rewards.Rewards
  /\ pc' = "done"
  /\ UNCHANGED <<world, start, end, rewardIdx, clanMembers, out, clanMemberIDs, best,
                 memberIdx, characters, modeIdx, charIdx, page, activities, actIdx,
                 calls, considered, visited, fetched, source>>

(* ---------------------- getEarliestClanCompletions --------------------- *)

\* Lines 280-284: getCharacters for the next member.  Characters.Data is a map, so
\* the characters come in any order; a profile without characters makes the four
\* getEarliestClanCompletion calls return at once.
GetCharacters ==
  /\ pc = "member"
  /\ memberIdx <= Len(clanMembers)
  /\ \E chs \in Orders(1..numChars[clanMembers[memberIdx]]) :
       /\ characters' = chs
       /\ IF Len(chs) = 0
          THEN /\ memberIdx' = memberIdx + 1
               /\ pc' = "member"
          ELSE /\ memberIdx' = memberIdx
               /\ pc' = "fetch"
  /\ modeIdx' = 1
  /\ charIdx' = 1
  /\ page' = 0
  /\ activities' = <<>>
  /\ actIdx' = 1
  /\ fetched' = <<>>
  /\ UNCHANGED <<world, start, end, rewardIdx, clanMembers, out, clanMemberIDs, best,
                 calls, considered, visited, source>>

\* Line 302: every member is scanned, the four completions are returned.
ReturnCompletions ==
  /\ pc = "member"
  /\ memberIdx > Len(clanMembers)
  /\ pc' = "report"
  /\ UNCHANGED <<world, start, end, rewardIdx, clanMembers, out, clanMemberIDs, best,
                 memberIdx, characters, modeIdx, charIdx, page, activities, actIdx,
                 calls, considered, visited, fetched, source>>

\* The loops of lines 209 and 285-301 after the activities of a character are
\* done: the next character, else the next mode, else the next member.
NextFeed ==
  /\ page' = 0
  /\ activities' = <<>>
  /\ actIdx' = 1
  /\ fetched' = <<>>
  /\ characters' = characters
  /\ IF charIdx < Len(characters)
     THEN /\ charIdx' = charIdx + 1
          /\ modeIdx' = modeIdx
          /\ memberIdx' = memberIdx
          /\ pc' = "fetch"
     ELSE IF modeIdx < Len(ModeOrder)
     THEN /\ charIdx' = 1
          /\ modeIdx' = modeIdx + 1
          /\ memberIdx' = memberIdx
          /\ pc' = "fetch"
     ELSE /\ charIdx' = 1
          /\ modeIdx' = 1
          /\ memberIdx' = memberIdx + 1
          /\ pc' = "member"

\* The positions of a page's records that are appended to `activities`.
Hits(m, ch, mode, p, resp) ==
  {<<m, ch, mode, p * count + i>> : i \in {j \in 1..Len(resp) : InWindow(resp[j], start, end)}}

\* getActivities lines 140-167: one iteration of the page loop.
FetchPage ==
  /\ pc = "fetch"
  /\ LET m == clanMembers[memberIdx]
         ch == characters[charIdx]
         mode == ModeOrder[modeIdx]
         resp == PageOf(ActivityHistory(m, ch, mode), page)
         acts == activities \o Retained(resp, start, end)
     IN  /\ considered' = considered \cup Hits(m, ch, mode, page, resp)
         /\ visited' = visited \cup {<<m, ch, mode, page>>}
         /\ IF MorePages(resp, start, end)
            THEN /\ page' = page + 1
                 /\ activities' = acts
                 /\ fetched' = Append(fetched, page)
                 /\ UNCHANGED <<pc, memberIdx, characters, modeIdx, charIdx, actIdx>>
            ELSE IF Len(acts) > 0
            THEN /\ pc' = "scan"
                 /\ activities' = acts
                 /\ actIdx' = 1
                 /\ fetched' = Append(fetched, page)
                 /\ UNCHANGED <<page, memberIdx, characters, modeIdx, charIdx>>
            ELSE NextFeed
  /\ UNCHANGED <<world, start, end, rewardIdx, clanMembers, out, clanMemberIDs, best,
                 calls, source>>

\* getEarliestClanCompletion lines 214-263: one iteration of the activity loop.
ScanActivity ==
  /\ pc = "scan"
  /\ LET activity == activities[actIdx]
         mode == ModeOrder[modeIdx]
         earliest == Earliest(activity, mode, best[mode], clanMemberIDs)
     IN  IF ~NotCompleted(activity) /\ UnknownVictory(activity)
         THEN /\ pc' = "panic"
              /\ UNCHANGED <<best, source, memberIdx, characters, modeIdx, charIdx,
                             page, activities, actIdx, fetched>>
         ELSE /\ best' = [best EXCEPT ![mode] = earliest]
              /\ source' = IF earliest = best[mode] THEN source
                           ELSE [source EXCEPT ![mode] = activity.instanceID]
              /\ IF actIdx < Len(activities)
                 THEN /\ actIdx' = actIdx + 1
                      /\ UNCHANGED <<pc, memberIdx, characters, modeIdx, charIdx, page,
                                     activities, fetched>>
                 ELSE NextFeed
  /\ UNCHANGED <<world, start, end, rewardIdx, clanMembers, out, clanMemberIDs, calls,
                 considered, visited>>

\* A call of the remote service returns an error (lines 40, 57, 81, 104, 124, 144,
\* 175); main ends the run with logger.Fatal.
UpstreamError ==
  /\ \/ pc = "setup"
     \/ pc = "member" /\ memberIdx <= Len(clanMembers)
     \/ pc = "fetch"
     \/ pc = "scan" /\ ReachesFireteam(activities[actIdx], best[ModeOrder[modeIdx]])
  /\ pc' = "fatal"
  /\ UNCHANGED <<world, start, end, rewardIdx, clanMembers, out, clanMemberIDs, best,
                 memberIdx, characters, modeIdx, charIdx, page, activities, actIdx,
                 calls, considered, visited, fetched, source>>

\* main lines 356-383: the block of one reward is printed, the window moves back.
Report ==
  /\ pc = "report"
  /\ out' = Append(out, [reward |-> rewardIdx, completions |-> best])
  /\ start' = AddDate(start, -WeekDays)
  /\ end' = AddDate(end, -WeekDays)
  /\ rewardIdx' = rewardIdx + 1
  /\ pc' = "loop"
  /\ UNCHANGED <<world, clanMembers, clanMemberIDs, best, memberIdx, characters,
                 modeIdx, charIdx, page, activities, actIdx, calls, considered, visited,
                 fetched, source>>

Next ==
  \/ Setup
  \/ EnterWindow
  \/ Finish
  \/ GetCharacters
  \/ ReturnCompletions
  \/ FetchPage
  \/ ScanActivity
  \/ UpstreamError
  \/ Report

(* ------------------- the remote services of the runs ------------------- *)

\* The characters of a member's profile: two for the first member, none for the
\* last one (Response == nil, lines 85-88), one for the others.
ProfileCharacters(m) == IF m = 1 THEN 2 ELSE IF m = NumMembers THEN 0 ELSE 1

FeedKeys == {<<m, ch, mode>> : m \in Roster, ch \in 1..2, mode \in Modes}

\* A record of the activity history.
Activity(id, period, dur, flags) ==
  [instanceID |-> id, period |-> period,
   values |-> [activityDurationSeconds |-> dur] @@ flags]

\* A completed activity whose standing is the win code.
Win == [completed |-> 1, standing |-> 0]

\* Every combination of the completed flag with the two victory signals, each
\* absent, 0 or 1.
FlagChoices ==
  {c @@ s @@ r :
     c \in {[completed |-> 0], [completed |-> 1]},
     s \in {<<>>, [standing |-> 0], [standing |-> 1]},
     r \in {<<>>, [completionReason |-> 0], [completionReason |-> 1]}}

Entry(m, done) == [membershipID |-> m, completed |-> done]

\* Fireteams of a post game carnage report: three, two and one clan members, an
\* outsider beside two and beside one clan member, a clan member who did not
\* complete, and a clan member listed twice (one entry per character played).
EntryChoices ==
  {<<Entry(1, 1), Entry(2, 1), Entry(3, 1)>>,
   <<Entry(2, 1), Entry(1, 1)>>,
   <<Entry(1, 1)>>,
   <<Entry(1, 1), Entry(Outsider, 1), Entry(2, 1)>>,
   <<Entry(Outsider, 1), Entry(2, 1)>>,
   <<Entry(1, 1), Entry(2, 1), Entry(3, 0)>>,
   <<Entry(1, 1), Entry(1, 1), Entry(2, 1)>>}

\* The fireteams of the incumbent of the selection runs.
FirstEntryChoices ==
  {<<Entry(1, 1), Entry(2, 1), Entry(3, 1)>>,
   <<Entry(2, 1), Entry(1, 1)>>,
   <<Entry(1, 1)>>}

World(n, feeds, reports) ==
  [rewards |-> [StartDate |-> PeriodStart, EndDate |-> AddDate(PeriodStart, WeekDays),
                Rewards |-> n],
   numChars |-> [m \in Roster |-> ProfileCharacters(m)],
   history |-> feeds,
   pgcr |-> [i \in 0..2 |-> IF i \in DOMAIN reports THEN reports[i] ELSE <<>>]]

\* Two winning activities of one mode in the current week, the second in the same
\* feed after the first, in the feed of the member's other character, or in the
\* feed of the next member; it ends before, with or after the first.
SelectionWorlds ==
  {LET a1 == Activity(1, PeriodStart + Hour, 2 * Hour, Win)
       a2 == Activity(2, PeriodStart + Hour, d2 * Hour, Win)
       k1 == <<1, 1, mode>>
       k2 == <<o2[1], o2[2], mode>>
   IN  World(n,
             IF k1 = k2 THEN k1 :> [pad |-> 0, recs |-> <<a1, a2>>]
             ELSE (k1 :> [pad |-> 0, recs |-> <<a1>>]) @@ (k2 :> [pad |-> 0, recs |-> <<a2>>]),
             (1 :> e1) @@ (2 :> e2)) :
     n \in 1..MaxRewards, mode \in Modes, d2 \in 1..3,
     o2 \in {<<1, 1>>, <<1, 2>>, <<2, 1>>},
     e1 \in FirstEntryChoices, e2 \in EntryChoices}

\* One activity of the current week in the feeds of two members who were both in
\* its fireteam, each with a standing of their own.
SharedWorlds ==
  {World(n,
         (<<1, 1, mode>> :> [pad |-> 0, recs |-> <<Activity(1, PeriodStart + Hour, Hour, f1)>>])
           @@ (<<2, 1, mode>> :> [pad |-> 0, recs |-> <<Activity(1, PeriodStart + Hour, Hour, f2)>>]),
         1 :> e1) :
     n \in 1..MaxRewards, mode \in Modes, e1 \in EntryChoices,
     f1 \in {Win, [completed |-> 1, standing |-> 1]},
     f2 \in {Win, [completed |-> 1, standing |-> 1]}}

\* One activity of the current week with every combination of the signals.
SignalWorlds ==
  {World(n,
         <<1, 1, mode>> :> [pad |-> 0, recs |-> <<Activity(1, PeriodStart + Hour, Hour, flags)>>],
         1 :> <<Entry(1, 1), Entry(2, 1), Entry(3, 1)>>) :
     n \in 1..MaxRewards, mode \in Modes, flags \in FlagChoices}

\* One winning activity that starts a second before, at or a second after the
\* start of the current week and ends a second before, at or a second after the
\* start or the end of the current week.
WindowWorlds ==
  {World(n,
         <<1, 1, mode>> :> [pad |-> 0, recs |-> <<Activity(1, p, e - p, Win)>>],
         1 :> <<Entry(1, 1), Entry(2, 1), Entry(3, 1)>>) :
     n \in 1..MaxRewards, mode \in {Raid, Crucible},
     p \in {PeriodStart - 1, PeriodStart, PeriodStart + 1},
     e \in {PeriodStart + 1, PeriodStart + 2,
            AddDate(PeriodStart, WeekDays) - 1, AddDate(PeriodStart, WeekDays),
            AddDate(PeriodStart, WeekDays) + 1}}

\* One winning activity of the current or of the previous week behind a page
\* (short by one, full, or full and one) or two pages of newer abandoned
\* activities.
PagingWorlds ==
  {World(n,
         <<1, 1, Nightfall>> :> [pad |-> pad, recs |-> <<Activity(1, p, Hour, Win)>>],
         1 :> <<Entry(1, 1), Entry(2, 1)>>) :
     n \in 1..MaxRewards, pad \in {count - 1, count, count + 1, 2 * count},
     p \in {PeriodStart, AddDate(PeriodStart, -WeekDays) + Hour}}

Worlds ==
  SelectionWorlds \cup SharedWorlds \cup SignalWorlds \cup WindowWorlds \cup PagingWorlds

Init ==
  /\ \E w \in Worlds :
       /\ rewards = w.rewards
       /\ numChars = w.numChars
       /\ history = w.history
       /\ pgcr = w.pgcr
  /\ pc = "setup"
  /\ start = 0
  /\ end = 0
  /\ rewardIdx = 0
  /\ clanMembers = <<>>
  /\ out = <<>>
  /\ clanMemberIDs = {}
  /\ best = NoBest
  /\ memberIdx = 1
  /\ characters = <<>>
  /\ modeIdx = 1
  /\ charIdx = 1
  /\ page = 0
  /\ activities = <<>>
  /\ actIdx = 1
  /\ calls = <<>>
  /\ considered = {}
  /\ visited = {}
  /\ fetched = <<>>
  /\ source = NoSource

Spec == Init /\ [][Next]_vars

(* =============================== claims ================================ *)

\* The feeds the scan of a window ranges over: every character of every member.
ScannedFeeds == {k \in FeedKeys : k[2] <= numChars[k[1]]}

\* The window of the getEarliestClanCompletions call in progress.
Window == calls[Len(calls)]

InCall == pc \in {"member", "fetch", "scan", "report"}

\* The quorum table of the specification.
Quorum(mode) == IF mode = 4 THEN 3 ELSE 2

\* The entries of an instance's report that completed and are clan members.
ClanEntries(id) ==
  {i \in 1..Len(pgcr[id]) : pgcr[id][i].completed # 0 /\ pgcr[id][i].membershipID \in Roster}

\* A record of a feed is a win: the standing if present, else the completion reason.
Won(a) ==
  \/ "standing" \in DOMAIN a.values /\ a.values.standing = 0
  \/ /\ "standing" \notin DOMAIN a.values
     /\ "completionReason" \in DOMAIN a.values
     /\ a.values.completionReason = 0

\* The records of the scanned feeds of a mode.
Records(mode) ==
  UNION {Range(ActivityHistory(k[1], k[2], k[3])) : k \in {f \in ScannedFeeds : f[3] = mode}}

\* The qualifying completions of a mode in the window [s, e]: <<instance, end>>.
Qualifying(mode, s, e) ==
  {<<a.instanceID, a.period + a.values.activityDurationSeconds>> :
     a \in {b \in Records(mode) :
              /\ b.period >= s
              /\ b.period + b.values.activityDurationSeconds <= e
              /\ b.values.completed # 0
              /\ Won(b)
              /\ Cardinality(ClanEntries(b.instanceID)) >= Quorum(mode)}}

\* C1: when a window's scan has returned, each category holds the qualifying
\* completion (in window, completed, victory, quorum met) with the least end time
\* whenever the qualifying completions have pairwise distinct end times, and holds
\* nil iff there is no qualifying completion.
C1_EarliestQualifyingSelected ==
  pc = "report" =>
    \A mode \in Modes :
      LET Q == Qualifying(mode, Window.start, Window.end)
      IN  (\A q1, q2 \in Q : q1[2] = q2[2] => q1[1] = q2[1]) =>
            /\ (Q = {}) <=> ~best[mode].valid
            /\ Q # {} =>
                 /\ \A q \in Q : best[mode].end <= q[2]
                 /\ <<source[mode], best[mode].end>> \in Q

\* C2: an iteration of the activity loop replaces the retained completion of its
\* category only by one that ends strictly earlier; a candidate that ends with or
\* after the incumbent leaves the incumbent (and the instance it came from) in
\* place, and the scan goes on with the next activity, character, mode or member.
C2_ReplacedOnlyByStrictlyEarlier ==
  [][pc = "scan" /\ pc' # "fatal" /\ pc' # "panic" =>
       LET mode == ModeOrder[modeIdx]
           cand == activities[actIdx]
       IN  /\ \A other \in Modes \ {mode} : best'[other] = best[other]
           /\ (best[mode].valid /\ best'[mode] # best[mode]) =>
                best'[mode].end < best[mode].end
           /\ (best[mode].valid
                 /\ cand.period + cand.values.activityDurationSeconds >= best[mode].end) =>
                /\ best'[mode] = best[mode]
                /\ source'[mode] = source[mode]
                /\ pc' \in {"scan", "fetch", "member"}]_vars

\* A tie was met and the first scanned completion is the one retained: instance 2
\* qualifies, ends when instance 1 ends, was scanned after it, and instance 1 with
\* its own fireteam is what the scan returns.
C2_Witness ==
  /\ pc = "report"
  /\ \E mode \in Modes :
       /\ source[mode] = 1
       /\ <<2, 1, mode>> \in DOMAIN history
       /\ history[<<2, 1, mode>>].recs[1].instanceID = 2
       /\ <<2, best[mode].end>> \in Qualifying(mode, Window.start, Window.end)
       /\ pgcr[1] # pgcr[2]
       /\ Len(best[mode].fireteamMembers) = Cardinality(ClanEntries(1))
       /\ Cardinality(ClanEntries(1)) # Cardinality(ClanEntries(2))

\* The positions of the scanned feeds whose record lies inside [s, e].
InsideWindow(s, e) ==
  UNION {LET feed == ActivityHistory(k[1], k[2], k[3])
         IN  {<<k[1], k[2], k[3], i>> :
                i \in {j \in 1..Len(feed) :
                         /\ feed[j].period >= s
                         /\ feed[j].period + feed[j].values.activityDurationSeconds <= e}} :
         k \in ScannedFeeds \cap DOMAIN history}

\* C3: when a window's scan has returned, every record of every feed of every
\* member, character and category that lies inside the window, on whatever page,
\* has been considered as a candidate.
C3_ScanExhaustive ==
  pc = "report" => InsideWindow(Window.start, Window.end) \subseteq considered

\* C4: a retained completion of a category names at least quorum many distinct
\* clan members: 3 for a raid, 2 for the other categories.
C4_QuorumOfDistinctMembers ==
  \A mode \in Modes :
    best[mode].valid =>
      Cardinality(Range(best[mode].fireteamMembers)) >= Quorum(mode)

\* The pages of a feed fetched so far by the getActivities call, concatenated.
RECURSIVE Concat(_, _)
Concat(feed, pages) ==
  IF pages = <<>> THEN <<>>
  ELSE PageOf(feed, Head(pages)) \o Concat(feed, Tail(pages))

CurrentFeed ==
  ActivityHistory(clanMembers[memberIdx], characters[charIdx], ModeOrder[modeIdx])

\* C5: the records getActivities retains from the pages it fetches, and the
\* activities it holds, are exactly the records of those pages that start at or
\* after window.start and end at or before window.end, and
\* the end of every retained or reported completion lies within the window its
\* scan was called with.
C5_WindowFilterInclusive ==
  /\ InCall =>
       considered =
         {x \in InsideWindow(Window.start, Window.end) :
            <<x[1], x[2], x[3], (x[4] - 1) \div 100>> \in visited}
  /\ pc \in {"fetch", "scan"} =>
       activities =
         SelectSeq(Concat(CurrentFeed, fetched),
                   LAMBDA a : /\ a.period >= Window.start
                              /\ a.period + a.values.activityDurationSeconds <= Window.end)
  /\ InCall =>
       \A mode \in Modes :
         best[mode].valid =>
           Window.start <= best[mode].end /\ best[mode].end <= Window.end
  /\ \A k \in 1..Len(out) : \A mode \in Modes :
       out[k].completions[mode].valid =>
         /\ calls[k].start <= out[k].completions[mode].end
         /\ out[k].completions[mode].end <= calls[k].end

\* An activity that spans the whole window, boundary to boundary, is retained.
C5_Witness ==
  /\ pc = "report"
  /\ best[Raid].valid
  /\ best[Raid].end = Window.end
  /\ <<1, 1, Raid>> \in DOMAIN history
  /\ history[<<1, 1, Raid>>].recs[1].period = Window.start

\* C6: the activity loop classifies an in-window activity in this order: completed
\* flag 0, rejected without failure whatever the signals; else standing present,
\* victory iff it is 0, whatever the completion reason; else completion reason
\* present, victory iff it is 0; else both absent, the run fails at once and
\* returns nothing.  A victory goes on to the comparison with the incumbent.
C6_ClassificationPrecedence ==
  [][pc = "scan" =>
       LET mode == ModeOrder[modeIdx]
           v == activities[actIdx].values
           id == activities[actIdx].instanceID
           hasStanding == "standing" \in DOMAIN v
           hasReason == "completionReason" \in DOMAIN v
           rejected == best' = best /\ pc' \in {"scan", "fetch", "member"}
           accepted ==
             (/\ ~best[mode].valid
              /\ Cardinality(ClanEntries(id)) >= Quorum(mode)
              /\ pc' # "fatal") => (best'[mode].valid /\ source'[mode] = id)
       IN  /\ v.completed = 0 => rejected
           /\ (v.completed # 0 /\ hasStanding /\ v.standing = 0) => accepted
           /\ (v.completed # 0 /\ hasStanding /\ v.standing # 0) => rejected
           /\ (v.completed # 0 /\ ~hasStanding /\ hasReason /\ v.completionReason = 0)
                => accepted
           /\ (v.completed # 0 /\ ~hasStanding /\ hasReason /\ v.completionReason # 0)
                => rejected
           /\ (v.completed # 0 /\ ~hasStanding /\ ~hasReason) =>
                pc' = "panic" /\ best' = best /\ out' = out]_vars

\* A completed activity whose standing is the win code and whose completion
\* reason is not was classified a victory and retained.
C6_Witness ==
  /\ pc = "report"
  /\ \E mode \in Modes :
       /\ source[mode] = 1
       /\ <<1, 1, mode>> \in DOMAIN history
       /\ "completionReason" \in DOMAIN history[<<1, 1, mode>>].recs[1].values
       /\ history[<<1, 1, mode>>].recs[1].values.completionReason = 1
       /\ history[<<1, 1, mode>>].recs[1].values.standing = 0

\* C7: the members recorded in a retained completion are exactly the players of
\* the entries of its instance's report whose completed flag is set and who are
\* in the clan roster.
C7_MembersAreCompletedClanEntries ==
  \A mode \in Modes :
    best[mode].valid =>
      /\ source[mode] \in DOMAIN pgcr
      /\ Range(best[mode].fireteamMembers) =
           {e.membershipID :
              e \in {x \in Range(pgcr[source[mode]]) :
                       x.completed # 0 /\ x.membershipID \in Roster}}

\* A completion is retained whose report also lists a player who is not recorded.
C7_Witness ==
  \E mode \in Modes :
    /\ best[mode].valid
    /\ \E e \in Range(pgcr[source[mode]]) :
         e.membershipID \notin Range(best[mode].fireteamMembers)

\* C8: when the run is aborted (an upstream error or an unclassifiable activity),
\* no report block of any reward period has been printed.
C8_NoPartialReport ==
  pc \in {"fatal", "panic"} => out = <<>>

\* C9: the k-th getEarliestClanCompletions call of a run gets the window
\* [StartDate - 7(k-1) days, EndDate - 7(k-1) days], so every window is as long as
\* the reward period; a finished run has made one call per reward, and each call
\* starts with the four completions nil.
C9_WeeklyWindows ==
  /\ \A k \in 1..Len(calls) :
       /\ calls[k].start = rewards.StartDate - 7 * (k - 1) * 86400
       /\ calls[k].end = rewards.EndDate - 7 * (k - 1) * 86400
       /\ calls[k].end - calls[k].start = rewards.EndDate - rewards.StartDate
  /\ Len(calls) <= rewards.Rewards
  /\ pc = "done" => Len(calls) = rewards.Rewards /\ Len(out) = rewards.Rewards
  /\ (pc = "member" /\ memberIdx = 1) => \A mode \in Modes : ~best[mode].valid

\* A run over two rewards has finished after a first window that retained a
\* completion.
C9_Witness ==
  /\ pc = "done"
  /\ Len(calls) = 2
  /\ \E mode \in Modes : out[1].completions[mode].valid

\* The number of records of a page that lie inside the window.
HitsOn(feed, p) ==
  Cardinality({i \in 1..Len(PageOf(feed, p)) :
                 /\ PageOf(feed, p)[i].period >= Window.start
                 /\ EndTime(PageOf(feed, p)[i]) <= Window.end})

\* C10: a getActivities call fetches the pages 0, 1, 2, ... in order; every page
\* before the last one fetched held 100 records and at least one retained
\* activity, the call ends with the first page that holds fewer than 100 records
\* or no retained activity, and no page is fetched that starts beyond the feed.
C10_PaginationStops ==
  pc \in {"fetch", "scan"} =>
    /\ \A i \in 1..Len(fetched) : fetched[i] = i - 1
    /\ pc = "fetch" => page = Len(fetched) /\ page * 100 <= Len(CurrentFeed)
    /\ \A i \in 1..Len(fetched) :
         (pc = "fetch" \/ i < Len(fetched)) =>
           /\ Len(PageOf(CurrentFeed, fetched[i])) = 100
           /\ HitsOn(CurrentFeed, fetched[i]) >= 1
    /\ pc = "scan" =>
         /\ Len(fetched) >= 1
         /\ \/ Len(PageOf(CurrentFeed, fetched[Len(fetched)])) < 100
            \/ HitsOn(CurrentFeed, fetched[Len(fetched)]) = 0

\* A second page was fetched after a full page with retained activities, and the
\* call ended on it.
C10_Witness ==
  /\ pc = "scan"
  /\ fetched = <<0, 1>>
  /\ Len(activities) > 100

====
